---- MODULE Spec2Model ----
(***************************************************************************)
(* A model of app.py: a five-node LangGraph pipeline that gathers the data *)
(* of a pull request and runs four text-generation passes over it, then    *)
(* writes result.json and final_report.md.                                 *)
(*                                                                         *)
(* Python strings are sequences of one-character strings; a chunk that     *)
(* holds no separator and no whitespace may stand for its characters.      *)
(***************************************************************************)
EXTENDS Integers, Sequences, FiniteSets, TLC

VARIABLES
    env,              \* the environment variables that are set (os.getenv is truthy)
    lib_strict,       \* whether the installed graph library rejects an update that
                      \* writes no key of the state schema
    pc,               \* the position of the script
    state,            \* the graph's state: one value per key of PRState
    aborted_by,       \* the exception that ended the process, "" while none has
    trace,            \* history: the nodes entered, in order
    written,          \* history: the keys of the state a node's update has set
    writes,           \* history: the merged updates, in order: the node and the keys it set
    netCalls,         \* history: the requests.get calls made, in order
    filesData,        \* history: the file listing the platform returned
    genCalls,         \* history: the text-generation calls, in order
    result_json,      \* the content of result.json, NoFile while not written
    final_report_md   \* the content of final_report.md, NoFile while not written

vars == <<env, lib_strict, pc, state, aborted_by, trace, written, writes, netCalls,
          filesData, genCalls, result_json, final_report_md>>

(***************************************************************************)
(* Bounds of the model.                                                    *)
(***************************************************************************)
MaxUrlLen == 6      \* characters of a pull request reference
MaxFiles == 2       \* entries of a file listing
MaxReplyLen == 2    \* characters of a generated text

(***************************************************************************)
(* Strings.                                                                *)
(***************************************************************************)
EmptyStr == <<>>

Strings(alphabet, n) == UNION {[1..k -> alphabet] : k \in 0..n}

\* str.rstrip(chars)
RECURSIVE RStripChars(_, _)
RStripChars(s, chars) ==
    IF s # <<>> /\ s[Len(s)] \in chars
    THEN RStripChars(SubSeq(s, 1, Len(s) - 1), chars)
    ELSE s

\* str.lstrip(chars)
RECURSIVE LStripChars(_, _)
LStripChars(s, chars) ==
    IF s # <<>> /\ s[1] \in chars
    THEN LStripChars(Tail(s), chars)
    ELSE s

Whitespace == {" ", "\n", "\t"}

\* str.strip()
Strip(s) == LStripChars(RStripChars(s, Whitespace), Whitespace)

\* str.split(sep) for a one-character sep: always at least one piece
RECURSIVE SplitFrom(_, _, _)
SplitFrom(s, sep, cur) ==
    IF s = <<>> THEN <<cur>>
    ELSE IF s[1] = sep THEN <<cur>> \o SplitFrom(Tail(s), sep, <<>>)
    ELSE SplitFrom(Tail(s), sep, Append(cur, s[1]))

Split(s, sep) == SplitFrom(s, sep, <<>>)

\* sub in s
Contains(sub, s) ==
    \E i \in 0..(Len(s) - Len(sub)) : SubSeq(s, i + 1, i + Len(sub)) = sub

\* s.endswith(suffix)
EndsWith(s, suffix) ==
    /\ Len(s) >= Len(suffix)
    /\ SubSeq(s, Len(s) - Len(suffix) + 1, Len(s)) = suffix

\* seq[-k], defined when HasNegIndex(seq, k)
NegIndex(seq, k) == seq[Len(seq) - k + 1]

\* seq[-k] raises IndexError unless the list has k elements
HasNegIndex(seq, k) == Len(seq) >= k

(***************************************************************************)
(* validate_env_vars                                                       *)
(***************************************************************************)
required_vars == {"OPENAI_API_KEY", "GITHUB_PERSONAL_ACCESS"}

\* Variant: only the first required variable is looked up.
missing_vars_first_only == {"OPENAI_API_KEY"} \ env

missing_vars == required_vars \ env

(***************************************************************************)
(* The graph: state schema, nodes, edges, merging of updates.              *)
(***************************************************************************)
StateKeys == <<"pr_url", "pr_info", "context", "features", "team_review",
               "final_report">>

KeySet == {StateKeys[i] : i \in 1..Len(StateKeys)}

END == "__end__"

EntryPoint == "gather_pr_info"

\* Variant: the edges out of contextualize_info and create_expert_checklist
\* are exchanged.
NextNodeCrossed(n) ==
    CASE n = "gather_pr_info" -> "contextualize_info"
      [] n = "contextualize_info" -> "final_review"
      [] n = "extract_features" -> "create_expert_checklist"
      [] n = "create_expert_checklist" -> "extract_features"
      [] n = "final_review" -> "__end__"

\* Variant: final_review has an edge back to the entry point.
NextNodeCyclic(n) ==
    CASE n = "gather_pr_info" -> "contextualize_info"
      [] n = "contextualize_info" -> "extract_features"
      [] n = "extract_features" -> "create_expert_checklist"
      [] n = "create_expert_checklist" -> "final_review"
      [] n = "final_review" -> "gather_pr_info"

\* workflow.add_edge(from, to)
NextNode(n) ==
    CASE n = "gather_pr_info" -> "contextualize_info"
      [] n = "contextualize_info" -> "extract_features"
      [] n = "extract_features" -> "create_expert_checklist"
      [] n = "create_expert_checklist" -> "final_review"
      [] n = "final_review" -> END

Nodes == {"gather_pr_info", "contextualize_info", "extract_features",
          "create_expert_checklist", "final_review"}

initial_state(url) ==
    [pr_url |-> url, pr_info |-> EmptyStr, context |-> EmptyStr,
     features |-> EmptyStr, team_review |-> EmptyStr, final_report |-> EmptyStr]

\* The keys of an update that are keys of the schema; any other key is dropped.
UpdateKeys(update) == DOMAIN update \cap KeySet

\* Variant: the update replaces the state, and a key it lacks is reset.
ApplyUpdateReplacing(st, update) ==
    [k \in KeySet |-> IF k \in DOMAIN update THEN update[k] ELSE EmptyStr]

\* The state after a node's update is merged: each schema key the update
\* holds is overwritten, every other key keeps its value.
ApplyUpdate(st, update) ==
    [k \in KeySet |-> IF k \in DOMAIN update THEN update[k] ELSE st[k]]

\* A strict library raises InvalidUpdateError on an update that writes no
\* key of the schema; a lenient one ignores it.
UpdateRejected(update) == lib_strict /\ UpdateKeys(update) = {}

(***************************************************************************)
(* Files of a pull request, as the platform lists and serves them.         *)
(***************************************************************************)
TextPlain == <<"t", "e", "x", "t", "/", "p", "l", "a", "i", "n">>
AppJson == <<"a", "p", "p", "l", "i", "c", "a", "t", "i", "o", "n", "/", "j", "s", "o", "n">>
ImagePng == <<"i", "m", "a", "g", "e", "/", "p", "n", "g">>

MimeTypes == {TextPlain, AppJson, ImagePng}

MainPy == <<"m", "a", "i", "n", ".", "p", "y">>
LogoPng == <<"l", "o", "g", "o", ".", "p", "n", "g">>
BoardExcalidraw == <<"b", ".", "e", "x", "c", "a", "l", "i", "d", "r", "a", "w">>

Filenames == {MainPy, LogoPng, BoardExcalidraw}

\* One entry of the file listing, with the type libmagic detects in the
\* bytes its raw_url serves.
FileEntries == [filename : Filenames, patch : {<<"@", "@">>}, mime : MimeTypes]

\* The listings of at most n files; a listing names a file once.
FileListings(n) ==
    {l \in UNION {[1..k -> FileEntries] : k \in 0..n} :
        \A i, j \in DOMAIN l : l[i].filename = l[j].filename => i = j}

PrBody == <<"b", "o", "d", "y">>

\* Variant: the reference is split without its trailing '/' removed.
url_parts_unstripped(url) == Split(url, "/")

\* url_parts = state['pr_url'].rstrip('/').split('/')
url_parts(url) == Split(RStripChars(url, {"/"}), "/")

\* url_parts[-4] raises IndexError on a shorter list; [-3] and [-1] follow it
RefParses(url) == HasNegIndex(url_parts(url), 4)

\* Variant: the owner is taken one segment too far right.
repo_owner_shifted(url) == NegIndex(url_parts(url), 3)

repo_owner(url) == NegIndex(url_parts(url), 4)
repo_name(url) == NegIndex(url_parts(url), 3)
pr_number(url) == NegIndex(url_parts(url), 1)

\* Variant: the condition grouped as A and (B or C).
SkippedRegrouped(file) ==
    /\ ~Contains(<<"t", "e", "x", "t">>, file.mime)
    /\ \/ ~Contains(<<"j", "s", "o", "n">>, file.mime)
       \/ EndsWith(file.filename,
                   <<".", "e", "x", "c", "a", "l", "i", "d", "r", "a", "w">>)

\* if 'text' not in content_type and 'json' not in content_type
\*    or filename.endswith('.excalidraw'): continue
Skipped(file) ==
    \/ /\ ~Contains(<<"t", "e", "x", "t">>, file.mime)
       /\ ~Contains(<<"j", "s", "o", "n">>, file.mime)
    \/ EndsWith(file.filename,
                <<".", "e", "x", "c", "a", "l", "i", "d", "r", "a", "w">>)

\* file_content.decode('utf-8') of the bytes served for the file
Decoded(file) == <<"text of">> \o file.filename

\* The dict diffs after the loop over the first n entries of the listing.
RECURSIVE DiffsAfter(_, _)
DiffsAfter(listing, n) ==
    IF n = 0 THEN <<>>
    ELSE LET before == DiffsAfter(listing, n - 1)
             file == listing[n]
         IN  IF Skipped(file) THEN before
             ELSE [f \in DOMAIN before \cup {file.filename} |->
                      IF f = file.filename
                      THEN [patch |-> file.patch, content |-> Decoded(file)]
                      ELSE before[f]]

\* Variant: a file is classified by its name before its content is fetched,
\* and the content of a drawing file is not fetched.
GatherCallsClassifyingFirst(url, listing) ==
    LET fetched == SelectSeq(listing,
                       LAMBDA f : ~EndsWith(f.filename,
                           <<".", "e", "x", "c", "a", "l", "i", "d", "r", "a", "w">>))
    IN  <<[op |-> "pull", arg |-> <<repo_owner(url), repo_name(url), pr_number(url)>>],
          [op |-> "files", arg |-> <<>>]>>
        \o [i \in 1..Len(fetched) |-> [op |-> "raw", arg |-> fetched[i].filename]]

\* The requests.get calls of a gather that runs to its end, in order.
GatherCalls(url, listing) ==
    <<[op |-> "pull", arg |-> <<repo_owner(url), repo_name(url), pr_number(url)>>],
      [op |-> "files", arg |-> <<>>]>>
    \o [i \in 1..Len(listing) |-> [op |-> "raw", arg |-> listing[i].filename]]

\* return {"pr_info": pr_info}
gather_update(listing) ==
    [k \in {"pr_info"} |->
        [description |-> PrBody, diffs |-> DiffsAfter(listing, Len(listing))]]

(***************************************************************************)
(* The analysis nodes.                                                     *)
(***************************************************************************)
Placeholder == <<"Error generating context.">>

ReplyAlphabet == {" ", "x"}

\* What client.chat.completions.create does: it returns a text, or raises.
GenFailure == [ok |-> FALSE, content |-> <<>>]
GenSuccess(text) == [ok |-> TRUE, content |-> text]
GenOutcomes == {GenFailure} \cup {GenSuccess(t) : t \in Strings(ReplyAlphabet, MaxReplyLen)}
BasicOutcomes == {GenFailure, GenSuccess(<<"x">>)}

\* try: reply = response.choices[0].message.content.strip()
\* except Exception: reply = "Error generating context."
Reply(outcome) == IF outcome.ok THEN Strip(outcome.content) ELSE Placeholder

\* The keys of the state each node's prompt is built from.
PromptReads(node) ==
    CASE node = "contextualize_info" -> {"pr_info"}
      [] node = "extract_features" -> {"pr_info", "context"}
      [] node = "create_expert_checklist" -> {"pr_info", "context", "features"}
      [] node = "final_review" -> KeySet

\* Variant: contextualize_info returns its reply under extract_features' key.
ReturnKeyMisplaced(node) ==
    CASE node = "gather_pr_info" -> "pr_info"
      [] node = "contextualize_info" -> "features"
      [] node = "extract_features" -> "features"
      [] node = "create_expert_checklist" -> "team_review"
      [] node = "final_review" -> "final report"

\* The key each node returns its result under.
ReturnKey(node) ==
    CASE node = "gather_pr_info" -> "pr_info"
      [] node = "contextualize_info" -> "context"
      [] node = "extract_features" -> "features"
      [] node = "create_expert_checklist" -> "team_review"
      [] node = "final_review" -> "final report"

\* Variant: a call that raised is made a second time.
GenerationCallsRetrying(node, st, outcome) ==
    LET call == [node |-> node,
                 prompt |-> [k \in PromptReads(node) |-> st[k]],
                 ok |-> outcome.ok,
                 reply |-> Reply(outcome)]
    IN  IF outcome.ok THEN <<call>> ELSE <<call, call>>

\* The calls of client.chat.completions.create a node makes: one, inside
\* the try, whose exception is handled without a second attempt.
GenerationCalls(node, st, outcome) ==
    <<[node |-> node,
       prompt |-> [k \in PromptReads(node) |-> st[k]],
       ok |-> outcome.ok,
       reply |-> Reply(outcome)]>>

analysis_update(node, outcome) == [k \in {ReturnKey(node)} |-> Reply(outcome)]

(***************************************************************************)
(* result.json and final_report.md                                         *)
(***************************************************************************)
NoFile == [exists |-> FALSE, content |-> <<>>]
File(content) == [exists |-> TRUE, content |-> content]

\* json.dumps(result): the pairs of the dict, in the order of its keys
JsonDumps(d) == [i \in 1..Len(StateKeys) |-> <<StateKeys[i], d[StateKeys[i]]>>]

(***************************************************************************)
(* Actions.                                                                *)
(***************************************************************************)
Abort(exception) ==
    /\ pc' = "aborted"
    /\ aborted_by' = exception

\* The library merges the update a node returned and follows the node's edge.
FinishNode(node, update) ==
    IF UpdateRejected(update)
    THEN /\ Abort("InvalidUpdateError")
         /\ UNCHANGED <<state, written, writes>>
    ELSE /\ state' = ApplyUpdate(state, update)
         /\ written' = written \cup UpdateKeys(update)
         /\ writes' = Append(writes, [node |-> node, keys |-> UpdateKeys(update)])
         /\ pc' = NextNode(node)
         /\ UNCHANGED aborted_by

\* validate_env_vars(), then app.invoke(initial_state) enters the graph
ValidateEnvVars ==
    /\ pc = "validate_env_vars"
    /\ IF missing_vars # {}
       THEN Abort("EnvironmentError")
       ELSE pc' = EntryPoint /\ UNCHANGED aborted_by
    /\ UNCHANGED <<env, lib_strict, state, trace, written, writes, netCalls, filesData,
                   genCalls, result_json, final_report_md>>

\* gather_pr_info: the platform returns `listing`; when fault > 0 the
\* fault-th request, or the handling of its response, raises.
GatherPrInfo(listing, fault) ==
    /\ pc = "gather_pr_info"
    /\ fault \in 0..(2 + Len(listing))
    /\ trace' = Append(trace, "gather_pr_info")
    /\ IF ~RefParses(state.pr_url)
       THEN /\ Abort("IndexError")
            /\ UNCHANGED <<state, written, writes, netCalls, filesData>>
       ELSE IF fault > 0
       THEN /\ Abort("FetchError")
            /\ netCalls' = SubSeq(GatherCalls(state.pr_url, listing), 1, fault)
            /\ filesData' = IF fault > 2 THEN listing ELSE filesData
            /\ UNCHANGED <<state, written, writes>>
       ELSE /\ netCalls' = GatherCalls(state.pr_url, listing)
            /\ filesData' = listing
            /\ FinishNode("gather_pr_info", gather_update(listing))
    /\ UNCHANGED <<env, lib_strict, genCalls, result_json, final_report_md>>

\* One of the four analysis nodes: build the prompt, call the client once,
\* return the reply under the node's key.
Analyze(node, outcome) ==
    /\ pc = node
    /\ trace' = Append(trace, node)
    /\ genCalls' = genCalls \o GenerationCalls(node, state, outcome)
    /\ FinishNode(node, analysis_update(node, outcome))
    /\ UNCHANGED <<env, lib_strict, netCalls, filesData, result_json,
                   final_report_md>>

ContextualizeInfo(outcome) == Analyze("contextualize_info", outcome)
ExtractFeatures(outcome) == Analyze("extract_features", outcome)
CreateExpertChecklist(outcome) == Analyze("create_expert_checklist", outcome)
FinalReview(outcome) == Analyze("final_review", outcome)

\* write_file(json.dumps(result), 'result.json')
WriteResultJson ==
    /\ pc = END
    /\ result_json' = File(JsonDumps(state))
    /\ pc' = "write_report"
    /\ UNCHANGED <<env, lib_strict, state, aborted_by, trace, written, writes, netCalls,
                   filesData, genCalls, final_report_md>>

\* write_file(result['final_report'], 'final_report.md')
WriteFinalReport ==
    /\ pc = "write_report"
    /\ final_report_md' = File(state["final_report"])
    /\ pc' = "done"
    /\ UNCHANGED <<env, lib_strict, state, aborted_by, trace, written, writes, netCalls,
                   filesData, genCalls, result_json>>

(***************************************************************************)
(* Specifications.  They share the actions and differ in the sets the      *)
(* inputs are drawn from.                                                  *)
(***************************************************************************)
SourceRef == <<"https:", "/", "/", "github.com", "/", "ai-cfia", "/",
               "fertiscan-backend", "/", "pull", "/", "106">>
MalformedRef == <<"not-a-valid-url">>
SampleRefs == {SourceRef, SourceRef \o <<"/">>, MalformedRef}

RefAlphabet == {"/", "a", "b"}

\* The listing of the end-to-end scenario: a text file and a .png file.
ScenarioListing ==
    <<[filename |-> MainPy, patch |-> <<"@", "@">>, mime |-> TextPlain],
      [filename |-> LogoPng, patch |-> <<"@", "@">>, mime |-> ImagePng]>>
SampleListings == {<<>>, ScenarioListing}

InitWith(refs, envs) ==
    /\ env \in envs
    /\ lib_strict \in BOOLEAN
    /\ pc = "validate_env_vars"
    /\ state \in {initial_state(url) : url \in refs}
    /\ aborted_by = ""
    /\ trace = <<>>
    /\ written = {}
    /\ writes = <<>>
    /\ netCalls = <<>>
    /\ filesData = <<>>
    /\ genCalls = <<>>
    /\ result_json = NoFile
    /\ final_report_md = NoFile

Run(listings, outcomes) ==
    \/ ValidateEnvVars
    \/ \E listing \in listings : \E fault \in 0..(2 + MaxFiles) :
          GatherPrInfo(listing, fault)
    \/ \E outcome \in outcomes : ContextualizeInfo(outcome)
    \/ \E outcome \in outcomes : ExtractFeatures(outcome)
    \/ \E outcome \in outcomes : CreateExpertChecklist(outcome)
    \/ \E outcome \in outcomes : FinalReview(outcome)
    \/ WriteResultJson
    \/ WriteFinalReport

\* The pipeline on sample references and listings, every generated text.
Init == InitWith(SampleRefs, SUBSET required_vars)
Next == Run(SampleListings, GenOutcomes)
Spec == Init /\ [][Next]_vars

\* The script is one sequential thread: as long as a statement remains and
\* every external call returns or raises, the next statement is executed.
FairSpec == Init /\ [][Next]_vars /\ WF_vars(Next)

\* Every reference of at most MaxUrlLen characters.
InitRef == InitWith(Strings(RefAlphabet, MaxUrlLen), {required_vars})
NextRef == Run({<<>>}, BasicOutcomes)
SpecRef == InitRef /\ [][NextRef]_vars

\* Every file listing of at most MaxFiles entries.
InitGather == InitWith({SourceRef}, {required_vars})
NextGather == Run(FileListings(MaxFiles), BasicOutcomes)
SpecGather == InitGather /\ [][NextGather]_vars

(***************************************************************************)
(* Vocabulary of the properties.                                           *)
(***************************************************************************)
StageOrder == <<"gather_pr_info", "contextualize_info", "extract_features",
                "create_expert_checklist", "final_review">>

\* The field of the state each stage is designated to produce.
FieldOrder == <<"pr_info", "context", "features", "team_review", "final_report">>

AnalysisStages == {2, 3, 4, 5}

IsPrefix(s, t) == Len(s) <= Len(t) /\ s = SubSeq(t, 1, Len(s))

Started == pc # "validate_env_vars"

ArtifactWritten == result_json.exists \/ final_report_md.exists

CredentialsMissing == ~({"OPENAI_API_KEY", "GITHUB_PERSONAL_ACCESS"} \subseteq env)

\* The '/'-separated segments of a reference, trailing '/' characters aside.
LastNonSlash(ref) ==
    IF \E i \in DOMAIN ref : ref[i] # "/"
    THEN CHOOSE i \in DOMAIN ref : ref[i] # "/" /\ \A j \in DOMAIN ref : j > i => ref[j] = "/"
    ELSE 0

Cuts(ref) ==
    {0, LastNonSlash(ref) + 1} \cup {i \in 1..LastNonSlash(ref) : ref[i] = "/"}

SegmentCount(ref) == Cardinality(Cuts(ref)) - 1

\* The k-th cut from the right, k = 1 being the end of the reference.
CutFromEnd(ref, k) ==
    CHOOSE p \in Cuts(ref) : Cardinality({q \in Cuts(ref) : q > p}) = k - 1

SegmentFromEnd(ref, k) ==
    SubSeq(ref, CutFromEnd(ref, k + 1) + 1, CutFromEnd(ref, k) - 1)

(***************************************************************************)
(* C1: the nodes entered so far are always an initial part of the fixed    *)
(* order gather_pr_info, contextualize_info, extract_features,             *)
(* create_expert_checklist, final_review (so none is entered twice or out  *)
(* of order), the node about to run is the next of that order, and the     *)
(* update of every node before the last one entered has been merged.       *)
(***************************************************************************)
C1_FixedStageOrder ==
    /\ IsPrefix(trace, StageOrder)
    /\ pc \in Nodes => Len(trace) < Len(StageOrder) /\ pc = StageOrder[Len(trace) + 1]
    /\ \A i \in 2..Len(trace) : FieldOrder[i - 1] \in written

C1_Witness == pc = "done" /\ trace = StageOrder

(***************************************************************************)
(* C2: whenever the generation call of an analysis stage has failed, the   *)
(* stage's report field holds the placeholder and the run has not been     *)
(* aborted; once the run is done every report field has been set.          *)
(***************************************************************************)
C2_FailureContained ==
    /\ \A c \in DOMAIN genCalls :
          ~genCalls[c].ok =>
              /\ pc # "aborted"
              /\ state[FieldOrder[c + 1]] = Placeholder
    /\ pc = "done" => \A i \in AnalysisStages : FieldOrder[i] \in written

(***************************************************************************)
(* C3: when all four generation calls have failed, the run is not aborted, *)
(* the four report fields all hold the placeholder, and a finished run has *)
(* written both artifacts.                                                 *)
(***************************************************************************)
C3_AllGenerationsFail ==
    (Len(genCalls) = 4 /\ \A c \in DOMAIN genCalls : ~genCalls[c].ok) =>
        /\ pc # "aborted"
        /\ \A i \in AnalysisStages : state[FieldOrder[i]] = Placeholder
        /\ pc = "done" => result_json.exists /\ final_report_md.exists

(***************************************************************************)
(* C4: in a finished run final_report.md holds exactly the text final_review *)
(* produced, and result.json holds the serialization of the final state.   *)
(***************************************************************************)
C4_ArtifactsHoldTheReport ==
    pc = "done" =>
        /\ final_report_md = File(genCalls[4].reply)
        /\ result_json = File(JsonDumps(state))

(***************************************************************************)
(* C5: a field of a later stage has been set by its stage only if the      *)
(* fields of all earlier stages have; and when an analysis node is about   *)
(* to build its prompt, every field the prompt reads that an earlier stage *)
(* produces has been set by that stage.                                    *)
(***************************************************************************)
C5_PopulatedInOrder ==
    /\ \A i, j \in 1..Len(FieldOrder) :
          i < j /\ FieldOrder[j] \in written => FieldOrder[i] \in written
    /\ \A n \in AnalysisStages :
          pc = StageOrder[n] =>
              \A i \in 1..(n - 1) :
                  FieldOrder[i] \in PromptReads(StageOrder[n]) => FieldOrder[i] \in written

C5_Witness ==
    /\ pc = "create_expert_checklist"
    /\ {"pr_info", "context", "features"} \subseteq written

(***************************************************************************)
(* C6: a reference with fewer than four '/'-separated segments (counted    *)
(* with trailing '/' characters dropped, which covers every reference      *)
(* with fewer than four segments at all) makes the run, once started,      *)
(* enter no node but gather_pr_info, which ends it with an IndexError:     *)
(* no request is made, no generation call is made, no field is set and no  *)
(* artifact is written.                                                    *)
(***************************************************************************)
C6_MalformedReferenceAborts ==
    (Started /\ SegmentCount(state.pr_url) < 4) =>
        /\ pc \in {"gather_pr_info", "aborted"}
        /\ pc = "aborted" => aborted_by = "IndexError" /\ trace = <<"gather_pr_info">>
        /\ pc = "gather_pr_info" => trace = <<>>
        /\ netCalls = <<>>
        /\ genCalls = <<>>
        /\ written = {}
        /\ state = initial_state(state.pr_url)
        /\ ~ArtifactWritten

C6_Witness ==
    /\ pc = "aborted"
    /\ aborted_by = "IndexError"
    /\ Len(Split(state.pr_url, "/")) = 3

(***************************************************************************)
(* C7: an artifact exists only when the five nodes have all run and the    *)
(* graph has returned; an aborted process has written neither artifact;    *)
(* with a credential missing no node is ever entered.                      *)
(***************************************************************************)
C7_NoArtifactOnFatal ==
    /\ ArtifactWritten =>
          /\ trace = StageOrder
          /\ pc \in {"write_report", "done"}
          /\ aborted_by = ""
    /\ pc = "aborted" => ~ArtifactWritten
    /\ (Started /\ CredentialsMissing) =>
          pc = "aborted" /\ aborted_by = "EnvironmentError" /\ trace = <<>>

C7_Witness ==
    /\ pc = "aborted"
    /\ aborted_by = "FetchError"
    /\ Len(netCalls) = 3
    /\ ~ArtifactWritten

(***************************************************************************)
(* C8: after a gather that completed, a listed file is a key of diffs      *)
(* exactly when its content type contains "text" or "json" and its name    *)
(* does not end in ".excalidraw"; diffs has no other key; the listing of   *)
(* one text file and one .png file gives diffs the text file alone.        *)
(***************************************************************************)
C8_DiffsFilter ==
    "pr_info" \in written =>
        LET diffs == state.pr_info.diffs IN
        /\ \A i \in DOMAIN filesData :
              filesData[i].filename \in DOMAIN diffs
              <=> /\ \/ Contains(<<"t", "e", "x", "t">>, filesData[i].mime)
                     \/ Contains(<<"j", "s", "o", "n">>, filesData[i].mime)
                  /\ ~EndsWith(filesData[i].filename,
                               <<".", "e", "x", "c", "a", "l", "i", "d", "r", "a", "w">>)
        /\ DOMAIN diffs \subseteq {filesData[i].filename : i \in DOMAIN filesData}
        /\ filesData = ScenarioListing => DOMAIN diffs = {MainPy}

C8_Witness ==
    /\ "pr_info" \in written
    /\ Len(filesData) = 2
    /\ \E i \in DOMAIN filesData :
          filesData[i].filename = BoardExcalidraw /\ filesData[i].mime = AppJson
    /\ Cardinality(DOMAIN state.pr_info.diffs) = 1

(***************************************************************************)
(* C9: for a reference of at least four '/'-separated segments (trailing   *)
(* '/' characters dropped), gather_pr_info does not fail on the reference  *)
(* and its first request, the metadata lookup, is made with the            *)
(* 4th-from-last, 3rd-from-last and last segment as owner, repository and  *)
(* number.                                                                 *)
(***************************************************************************)
C9_ReferenceExtraction ==
    (trace # <<>> /\ SegmentCount(state.pr_url) >= 4) =>
        /\ aborted_by # "IndexError"
        /\ Len(netCalls) >= 1
        /\ netCalls[1] = [op |-> "pull",
                          arg |-> <<SegmentFromEnd(state.pr_url, 4),
                                    SegmentFromEnd(state.pr_url, 3),
                                    SegmentFromEnd(state.pr_url, 1)>>]

C9_Witness ==
    /\ "pr_info" \in written
    /\ state.pr_url = <<"/", "a", "/", "/", "b", "/">>
    /\ netCalls[1].arg = <<<<>>, <<"a">>, <<"b">>>>

(***************************************************************************)
(* C11: in a finished run each of context, features, team_review and       *)
(* final_report, empty at the start, has been set by exactly one merged    *)
(* update, that of its designated stage, and these updates were merged in  *)
(* pipeline order.                                                         *)
(***************************************************************************)
WritesOf(key) == {w \in DOMAIN writes : key \in writes[w].keys}

C11_ReportsWrittenOnce ==
    pc = "done" =>
        /\ \A i \in AnalysisStages :
              /\ Cardinality(WritesOf(FieldOrder[i])) = 1
              /\ \A w \in WritesOf(FieldOrder[i]) : writes[w].node = StageOrder[i]
        /\ \A i, j \in AnalysisStages :
              i < j => \A w \in WritesOf(FieldOrder[i]), v \in WritesOf(FieldOrder[j]) : w < v

(***************************************************************************)
(* C12: every analysis node that has been entered has made exactly one     *)
(* generation call, whether the call succeeded or failed, and a node not   *)
(* yet entered has made none; the calls are in stage order; a finished run *)
(* has made exactly four.                                                  *)
(***************************************************************************)
CallsBy(node) == {c \in DOMAIN genCalls : genCalls[c].node = node}

Entered(node) == \E i \in DOMAIN trace : trace[i] = node

C12_OneCallPerStage ==
    /\ \A n \in AnalysisStages :
          Cardinality(CallsBy(StageOrder[n])) = IF Entered(StageOrder[n]) THEN 1 ELSE 0
    /\ \A c \in DOMAIN genCalls : c + 1 \in AnalysisStages /\ genCalls[c].node = StageOrder[c + 1]
    /\ pc = "done" => Len(genCalls) = 4

C12_Witness ==
    /\ pc = "done"
    /\ Len(genCalls) = 4
    /\ ~genCalls[2].ok
    /\ genCalls[3].ok

(***************************************************************************)
(* C13: a gather that completed on a listing of N files has made exactly   *)
(* 2 + N requests, in this order: the metadata, the file listing, then the *)
(* raw content of each listed file in listing order, the files left out of *)
(* diffs included.                                                         *)
(***************************************************************************)
C13_GatherRequests ==
    "pr_info" \in written =>
        /\ Len(netCalls) = 2 + Len(filesData)
        /\ netCalls[1].op = "pull"
        /\ netCalls[2].op = "files"
        /\ \A i \in DOMAIN filesData :
              netCalls[2 + i] = [op |-> "raw", arg |-> filesData[i].filename]

C13_Witness ==
    /\ "pr_info" \in written
    /\ Len(filesData) = 2
    /\ Len(netCalls) = 4
    /\ DOMAIN state.pr_info.diffs = {}

(***************************************************************************)
(* C14: the report text an analysis node returns is never empty, and the   *)
(* report field it has stored in the state is never empty: it is the       *)
(* placeholder or a non-empty text without surrounding whitespace.         *)
(***************************************************************************)
C14_ReportNeverEmpty ==
    \A c \in DOMAIN genCalls :
        /\ genCalls[c].reply # EmptyStr
        /\ \/ genCalls[c].reply = Placeholder
           \/ /\ genCalls[c].ok
              /\ genCalls[c].reply[1] \notin Whitespace
              /\ genCalls[c].reply[Len(genCalls[c].reply)] \notin Whitespace
        /\ c <= 3 => state[FieldOrder[c + 1]] # EmptyStr

(***************************************************************************)
(* C15: every run that keeps taking its steps ends, either finished or     *)
(* aborted; a finished run has entered the five nodes once each, in order, *)
(* and has written both artifacts; no node is ever entered twice; and a    *)
(* run that has ended takes no further step.                               *)
(***************************************************************************)
Ended == pc \in {"done", "aborted"}

C15_RunEnds ==
    /\ <>Ended
    /\ [](pc = "done" =>
            /\ trace = StageOrder
            /\ result_json.exists
            /\ final_report_md.exists
            /\ aborted_by = "")
    /\ [](\A i, j \in DOMAIN trace : trace[i] = trace[j] => i = j)
    /\ [][~Ended]_vars

C15_Witness ==
    /\ pc = "done"
    /\ ~lib_strict
    /\ result_json.exists
    /\ final_report_md.exists

(***************************************************************************)
(* C16: a step changes no field of the state other than the designated     *)
(* output of the node that takes it: pr_url is never changed, pr_info is   *)
(* changed by gather_pr_info alone, and no node changes the report of      *)
(* another node.                                                           *)
(***************************************************************************)
FieldOf(node) == FieldOrder[CHOOSE i \in DOMAIN StageOrder : StageOrder[i] = node]

C16_StageFrame ==
    [][\A k \in KeySet :
          \/ pc \in Nodes /\ k = FieldOf(pc)
          \/ state'[k] = state[k]]_vars

C16_Witness ==
    /\ pc = END
    /\ state.pr_url = SourceRef
    /\ written = {"pr_info", "context", "features", "team_review"}
    /\ state.context = <<"x">>
    /\ state.features = Placeholder
    /\ state.team_review = <<"x", "x">>

====
